---- MODULE Spec2Model ----
(***************************************************************************)
(* Model of Script/AppStore/AppStoreMonitor.js: the App Store update       *)
(* monitor.  A run reads the tracked-id list and the persisted table of    *)
(* monitored apps, prunes removed ids, probes the regional catalogs for    *)
(* every tracked id (one asynchronous task per id), classifies each        *)
(* observation against the stored version, posts notifications and writes  *)
(* the table back.                                                         *)
(*                                                                         *)
(* Strings are sequences of one-character strings, so that trimming,       *)
(* splitting, lower-casing, the build-suffix pattern and parseInt are      *)
(* computed the way the script computes them.                              *)
(***************************************************************************)
EXTENDS Integers, Sequences, FiniteSets, TLC

----------------------------------------------------------------------------
(* Strings *)

IsSpace(c) == c = " "

DigitChars == {"0", "1", "2", "3", "4", "5", "6", "7", "8", "9"}

DigitVal(c) ==
  CASE c = "0" -> 0 [] c = "1" -> 1 [] c = "2" -> 2 [] c = "3" -> 3
    [] c = "4" -> 4 [] c = "5" -> 5 [] c = "6" -> 6 [] c = "7" -> 7
    [] c = "8" -> 8 [] c = "9" -> 9

RECURSIVE TrimStart(_)
TrimStart(s) ==
  IF s # <<>> /\ IsSpace(Head(s)) THEN TrimStart(Tail(s)) ELSE s

RECURSIVE TrimEnd(_)
TrimEnd(s) ==
  IF s # <<>> /\ IsSpace(s[Len(s)]) THEN TrimEnd(SubSeq(s, 1, Len(s) - 1)) ELSE s

\* String.prototype.trim
Trim(s) == TrimEnd(TrimStart(s))

\* String.prototype.split(sep) for a one-character separator: always at
\* least one segment, the empty string splits into one empty segment.
RECURSIVE SplitFrom(_, _, _, _)
SplitFrom(s, sep, i, cur) ==
  IF i > Len(s) THEN <<cur>>
  ELSE IF s[i] = sep THEN <<cur>> \o SplitFrom(s, sep, i + 1, <<>>)
  ELSE SplitFrom(s, sep, i + 1, Append(cur, s[i]))

Split(s, sep) == SplitFrom(s, sep, 1, <<>>)

\* Array.prototype.filter(Boolean) on an array of strings: drops "".
FilterNonEmpty(segs) == SelectSeq(segs, LAMBDA x : x # <<>>)

\* segs.map(x => x.trim())
TrimAll(segs) == [i \in 1..Len(segs) |-> Trim(segs[i])]

LowerChar(c) ==
  CASE c = "U" -> "u" [] c = "S" -> "s" [] c = "C" -> "c" [] c = "N" -> "n"
    [] c = "H" -> "h" [] c = "K" -> "k" [] OTHER -> c

\* String.prototype.toLowerCase
ToLowerCase(s) == [i \in 1..Len(s) |-> LowerChar(s[i])]

Range(s) == {s[i] : i \in 1..Len(s)}

----------------------------------------------------------------------------
(* compareVersions *)

\* parseInt(p, 10): skips leading white space, reads an optional sign and the
\* longest run of digits; NaN when there is no digit.
RECURSIVE DigitsValue(_, _)
DigitsValue(s, acc) ==
  IF s # <<>> /\ Head(s) \in DigitChars
    THEN DigitsValue(Tail(s), 10 * acc + DigitVal(Head(s)))
    ELSE acc

parseInt(p) ==
  LET t    == TrimStart(p)
      neg  == t # <<>> /\ Head(t) = "-"
      sgn  == t # <<>> /\ Head(t) \in {"-", "+"}
      body == IF sgn THEN Tail(t) ELSE t
  IN IF body # <<>> /\ Head(body) \in DigitChars
       THEN [nan |-> FALSE,
             val |-> IF neg THEN 0 - DigitsValue(body, 0) ELSE DigitsValue(body, 0)]
       ELSE [nan |-> TRUE, val |-> 0]

\* The positions of "(" in s.
OpenParens(s) == {i \in 1..Len(s) : s[i] = "("}

Max(S) == CHOOSE x \in S : \A y \in S : y <= x

\* v.match(/^(.+?)\s*\((\d+)\)$/): the string ends in "(" digits ")", the
\* digits are not empty and at least one character precedes the "(".
\* The "(" of the suffix is the last "(" of the string.
BuildMatch(v) ==
  LET n == Len(v)
      k == IF OpenParens(v) = {} THEN 0 ELSE Max(OpenParens(v))
  IN IF /\ n >= 4
        /\ v[n] = ")"
        /\ k >= 2
        /\ k <= n - 2
        /\ \A i \in (k + 1)..(n - 1) : v[i] \in DigitChars
       THEN [matched |-> TRUE,
             main    |-> SubSeq(v, 1, k - 1),
             digits  |-> SubSeq(v, k + 1, n - 1)]
       ELSE [matched |-> FALSE, main |-> v, digits |-> <<>>]

\* A field the catalog result or the stored record does not carry reads as
\* undefined; "monitoredData[appId]?.version || null" yields null.
Undefined == <<"undefined">>
Null == <<"null">>

\* !v for a string, undefined or null
Falsy(v) == v \in {Undefined, Null, <<>>}

\* String(v)
String(v) ==
  IF v = Undefined THEN <<"u", "n", "d", "e", "f", "i", "n", "e", "d">>
  ELSE IF v = Null THEN <<"n", "u", "l", "l">>
  ELSE v

\* parse(v) of compareVersions
parse(v0) ==
  LET v     == Trim(String(v0))
      m     == BuildMatch(v)
      main  == IF m.matched THEN Trim(m.main) ELSE v
      build == IF m.matched THEN parseInt(m.digits).val ELSE 0
      segs  == Split(main, ".")
      num(p) == LET n == parseInt(p) IN IF n.nan THEN 0 ELSE n.val
  IN [parts |-> [i \in 1..Len(segs) |-> num(segs[i])], build |-> build]

\* Lines 283-284 without "|| 0": a missing position is not read as 0.
PartAt_NoDefault(parts, i) == IF i <= Len(parts) THEN parts[i] ELSE -1

\* a.parts[i] || 0
PartAt(parts, i) == IF i <= Len(parts) THEN parts[i] ELSE 0

RECURSIVE ComparePartsFrom(_, _, _, _)
ComparePartsFrom(a, b, i, len) ==
  IF i > len THEN 0
  ELSE IF PartAt(a, i) > PartAt(b, i) THEN 1
  ELSE IF PartAt(a, i) < PartAt(b, i) THEN -1
  ELSE ComparePartsFrom(a, b, i + 1, len)

\* compareVersions with line 281 taking the length of the first argument
\* instead of the longer of the two.
compareVersions_LenOfFirst(v1, v2) ==
  LET a == parse(v1)
      b == parse(v2)
      c == ComparePartsFrom(a.parts, b.parts, 1, Len(a.parts))
  IN IF c # 0 THEN c
     ELSE IF a.build > b.build THEN 1
     ELSE IF a.build < b.build THEN -1
     ELSE 0

\* lines 278-291: the comparison of the two parsed versions
CompareParsed(a, b) ==
  LET len == IF Len(a.parts) >= Len(b.parts) THEN Len(a.parts) ELSE Len(b.parts)
      c   == ComparePartsFrom(a.parts, b.parts, 1, len)
  IN IF c # 0 THEN c
     ELSE IF a.build > b.build THEN 1
     ELSE IF a.build < b.build THEN -1
     ELSE 0

\* lines 258-291.  parse cannot throw on a string, undefined or null (String
\* accepts them all), so the lexical fallback of lines 292-295 is never taken.
compareVersions(v1, v2) == CompareParsed(parse(v1), parse(v2))

----------------------------------------------------------------------------
(* Configuration and persisted data *)

\* A value of $persistentStore.read(key): null when the key was never written.
NoCfg == [set |-> FALSE, text |-> <<>>]
Cfg(text) == [set |-> TRUE, text |-> text]

\* JavaScript truthiness of a value read from the store
Truthy(c) == c.set /\ c.text # <<>>

ID1 == <<"1">>
ID2 == <<"2">>

\* Values of the tracked-id key AppStore_AppID the user may have written:
\* never written, "", ",", "1", "1,2", " 2 , 1," and "1,1".
IdConfigs ==
  { NoCfg,
    Cfg(<<>>),
    Cfg(<<",">>),
    Cfg(<<"1">>),
    Cfg(<<"1", ",", "2">>),
    Cfg(<<" ", "2", " ", ",", " ", "1", ",">>),
    Cfg(<<"1", ",", "1">>) }

\* Values of the region key AppStore_Region: " US,cn" and ",".
RegionConfigs ==
  { Cfg(<<" ", "U", "S", ",", "c", "n">>),
    Cfg(<<",">>) }

defaultRegions ==
  << <<"u", "s">>, <<"c", "n">>, <<"h", "k">>, <<"m", "o">>, <<"t", "w">>,
     <<"j", "p">>, <<"k", "r">>, <<"s", "g">>, <<"t", "r">> >>

\* Version strings a catalog result may carry.  Undefined is a result
\* without a version field, which the lookup endpoint returns for the id of
\* a catalog item that is not software; line 167 reads it unchecked.
V_1_9    == <<"1", ".", "9">>
V_1_10   == <<"1", ".", "1", "0">>
Versions == {Undefined, V_1_9, V_1_10}

\* The storefronts whose catalog lists the tracked apps: a probe of any other
\* region is answered with an empty result set.
Listed == { <<"u", "s">>, <<"c", "n">> }

Names == {<<"A">>}

EmptyTable == [i \in {} |-> 0]

\* The stored blob of AppStore_Monitored_Apps.  kind: "absent" (never
\* written), "blank" (the empty string), "malformed" (JSON.parse throws),
\* "null" (the JSON text null) or "json" (a serialized table).
Blob(kind, tbl) == [kind |-> kind, tbl |-> tbl]

\* JSON.stringify(monitoredData); "{}" is the serialized empty table.
JSONstringify(tbl) == Blob("json", tbl)

\* storedData is truthy
BlobTruthy(b) == b.kind \notin {"absent", "blank"}

\* storedData === '{}'
BlobIsEmptyObject(b) == b.kind = "json" /\ DOMAIN b.tbl = {}

\* Blobs the store may hold before the first run of a behaviour.
InitBlobs ==
  { Blob("absent", EmptyTable), Blob("blank", EmptyTable),
    Blob("malformed", EmptyTable), Blob("null", EmptyTable),
    Blob("json", EmptyTable) }

MaxRuns == 2

----------------------------------------------------------------------------
(* State *)

VARIABLES
  idsRaw,         \* $persistentStore value of AppStore_AppID
  regionsRaw,     \* $persistentStore value of AppStore_Region
  store,          \* $persistentStore value of AppStore_Monitored_Apps
  pc,             \* "idle", "active" (awaiting Promise.all), "done", "crashed"
  runs,           \* number of runs started
  store0,         \* the blob the current run read at its start
  newIds,         \* main: newIds
  regions,        \* main: regions
  monitoredData,  \* main: monitoredData
  tasks,          \* one checkAppUpdate call per element of newIds
  logs,           \* main: logs
  posted,         \* $notification.post calls of the current run, in order
  writes,         \* number of $persistentStore.write calls of the current run
  doneCalls,      \* number of $done calls of the current run
  errorLog,       \* number of errors the catch of line 123 logged in the current run
  catalog,        \* what the lookup endpoint answers, when it is held fixed
  cmp             \* one application of compareVersions: arguments and results

vars == << idsRaw, regionsRaw, store, pc, runs, store0, newIds, regions,
           monitoredData, tasks, logs, posted, writes, doneCalls, errorLog,
           catalog, cmp >>

EmptyLogs == [initial |-> <<>>, updated |-> <<>>, noUpdate |-> <<>>, notFound |-> <<>>]

NoInfo == [found |-> FALSE, version |-> Undefined, name |-> Undefined]
Info(v, n) == [found |-> TRUE, version |-> v, name |-> n]

\* What one lookupApp call resolves to: null, or results[0] of the response.
LookupResults == {NoInfo} \cup {Info(v, n) : v \in Versions, n \in Names}

\* The lookup endpoint.  A free catalog answers every call afresh (responses
\* differ between regions and between calls: transport errors, propagation
\* of a release); a fixed catalog answers every call for the same id and
\* region alike.
FreeCatalog == [fixed |-> FALSE, at |-> <<>>]
FixedCatalog(f) == [fixed |-> TRUE, at |-> f]

\* Whether the endpoint may answer a probe of region for appId with result r
\* (lines 240-250).
MayAnswer(appId, region, r) ==
  IF catalog.fixed
    THEN r = catalog.at[<<appId, region>>]
    ELSE r.found => region \in Listed

\* No comparison in progress.
NoCmp == [state |-> "none", v1 |-> <<>>, v2 |-> <<>>, r12 |-> 0, r21 |-> 0, r11 |-> 0]

Init ==
  /\ idsRaw \in IdConfigs
  /\ regionsRaw \in RegionConfigs
  /\ store \in InitBlobs
  /\ pc = "idle"
  /\ runs = 0
  /\ store0 = store
  /\ newIds = <<>>
  /\ regions = <<>>
  /\ monitoredData = EmptyTable
  /\ tasks = <<>>
  /\ logs = EmptyLogs
  /\ posted = <<>>
  /\ writes = 0
  /\ doneCalls = 0
  /\ errorLog = 0
  /\ catalog = FreeCatalog
  /\ cmp = NoCmp

----------------------------------------------------------------------------
(* main, up to the await *)

\* Line 29 without the comparison with '{}'.
IsUnconfigured_NoEmptyObject(ids, stored) == ~Truthy(ids) /\ ~BlobTruthy(stored)

\* line 29
IsUnconfigured(ids, stored) ==
  ~Truthy(ids) /\ (~BlobTruthy(stored) \/ BlobIsEmptyObject(stored))

\* line 38
ParseIds(ids) ==
  IF Truthy(ids) THEN FilterNonEmpty(TrimAll(Split(ids.text, ","))) ELSE <<>>

\* Line 40 without the comparison with '{}'.
HasStoredData_AnyText(stored) == BlobTruthy(stored)

\* line 40
HasStoredData(stored) == BlobTruthy(stored) /\ ~BlobIsEmptyObject(stored)

\* lines 52-60; JSON.parse of the text null yields null, which lines 52-60
\* accept and handleDeletions cannot enumerate (see MainCrash).
LoadMonitoredData(stored) ==
  IF stored.kind = "json" THEN stored.tbl ELSE EmptyTable

\* Line 132 with the membership test lost: nothing counts as removed.
deletedIds_None(ids, data) == {}

\* line 132
deletedIds(ids, data) == {id \in DOMAIN data : id \notin Range(ids)}

\* handleDeletions without the delete of line 139.
handleDeletions_KeepAll(ids, data) == data

\* lines 130-143
handleDeletions(ids, data) ==
  [id \in DOMAIN data \ deletedIds(ids, data) |-> data[id]]

\* line 74: segs.map(r => r.trim().toLowerCase())
LowerTrimAll(segs) == [i \in 1..Len(segs) |-> ToLowerCase(Trim(segs[i]))]

\* lines 66-80
ResolveRegions(raw) ==
  IF Truthy(raw)
    THEN LET customRegions == FilterNonEmpty(LowerTrimAll(Split(raw.text, ",")))
         IN IF Len(customRegions) > 0 THEN customRegions ELSE defaultRegions
    ELSE defaultRegions

\* checkAppUpdate up to its first await: the probe of the first region is
\* in flight.
NewTask(appId, regs) ==
  [appId |-> appId, status |-> "await", probed |-> <<regs[1]>>, answers |-> <<>>,
   appInfo |-> NoInfo, regionUsed |-> <<>>, class |-> "none", wrote |-> "none"]

CanStart == pc \in {"idle", "done", "crashed"} /\ runs < MaxRuns

\* lines 25-35
MainUnconfigured ==
  /\ CanStart
  /\ IsUnconfigured(idsRaw, store)
  /\ runs' = runs + 1
  /\ store0' = store
  /\ posted' = << [title |-> "unconfigured", appId |-> <<>>, region |-> <<>>,
                   from |-> Null, to |-> Null] >>
  /\ doneCalls' = 1
  /\ errorLog' = 0
  /\ writes' = 0
  /\ pc' = "done"
  /\ newIds' = <<>>
  /\ regions' = <<>>
  /\ monitoredData' = EmptyTable
  /\ tasks' = <<>>
  /\ logs' = EmptyLogs
  /\ UNCHANGED << cmp, catalog, idsRaw, regionsRaw, store >>

\* lines 37-49
MainEmptyTracked ==
  /\ CanStart
  /\ ~IsUnconfigured(idsRaw, store)
  /\ Len(ParseIds(idsRaw)) = 0
  /\ runs' = runs + 1
  /\ store0' = store
  /\ IF HasStoredData(store)
       THEN store' = Blob("blank", EmptyTable) /\ writes' = 1
       ELSE store' = store /\ writes' = 0
  /\ posted' = <<>>
  /\ doneCalls' = 1
  /\ errorLog' = 0
  /\ pc' = "done"
  /\ newIds' = <<>>
  /\ regions' = <<>>
  /\ monitoredData' = EmptyTable
  /\ tasks' = <<>>
  /\ logs' = EmptyLogs
  /\ UNCHANGED << cmp, catalog, idsRaw, regionsRaw >>

\* lines 51-97: load, prune, choose the region order and start one task per id
MainActive ==
  /\ CanStart
  /\ ~IsUnconfigured(idsRaw, store)
  /\ Len(ParseIds(idsRaw)) > 0
  /\ store.kind # "null"
  /\ runs' = runs + 1
  /\ store0' = store
  /\ newIds' = ParseIds(idsRaw)
  /\ monitoredData' = handleDeletions(ParseIds(idsRaw), LoadMonitoredData(store))
  /\ regions' = ResolveRegions(regionsRaw)
  /\ tasks' = [i \in 1..Len(ParseIds(idsRaw)) |->
                 NewTask(ParseIds(idsRaw)[i], ResolveRegions(regionsRaw))]
  /\ logs' = EmptyLogs
  /\ posted' = <<>>
  /\ writes' = 0
  /\ doneCalls' = 0
  /\ errorLog' = 0
  /\ pc' = "active"
  /\ UNCHANGED << cmp, catalog, idsRaw, regionsRaw, store >>

\* lines 55 and 131: the stored text null parses to null without an
\* exception, Object.keys(null) throws outside the try of line 94, and the
\* run ends without $done.
MainCrash ==
  /\ CanStart
  /\ ~IsUnconfigured(idsRaw, store)
  /\ Len(ParseIds(idsRaw)) > 0
  /\ store.kind = "null"
  /\ runs' = runs + 1
  /\ store0' = store
  /\ newIds' = ParseIds(idsRaw)
  /\ monitoredData' = EmptyTable
  /\ regions' = <<>>
  /\ tasks' = <<>>
  /\ logs' = EmptyLogs
  /\ posted' = <<>>
  /\ writes' = 0
  /\ doneCalls' = 0
  /\ errorLog' = 0
  /\ pc' = "crashed"
  /\ UNCHANGED << cmp, catalog, idsRaw, regionsRaw, store >>

----------------------------------------------------------------------------
(* checkAppUpdate *)

\* line 170: monitoredData[appId]?.version || null
StoredVersion(data, appId) ==
  IF appId \in DOMAIN data /\ ~Falsy(data[appId].version)
    THEN data[appId].version
    ELSE Null

\* lines 172-191: the log bucket and message the observation goes to
LogClass(storedVersion, newVersion) ==
  IF Falsy(storedVersion) THEN "initial"
  ELSE IF compareVersions(newVersion, storedVersion) > 0 THEN "updated"
  ELSE IF compareVersions(newVersion, storedVersion) < 0 THEN "lower"
  ELSE "same"

\* The condition of line 194 without its first-seen disjunct.
ShouldNotify_OnlyKnown(storedVersion, newVersion) ==
  ~Falsy(storedVersion) /\ compareVersions(newVersion, storedVersion) > 0

\* line 194
ShouldNotify(storedVersion, newVersion) ==
  Falsy(storedVersion) \/ compareVersions(newVersion, storedVersion) > 0

\* lines 195-199 and 224-228
Record(version, region, name) == [version |-> version, region |-> region, name |-> name]

\* The assignment of lines 195-199 lost.
PutRecord_Dropped(data, appId, rec) == data

PutRecord(data, appId, rec) ==
  [id \in DOMAIN data \cup {appId} |-> IF id = appId THEN rec ELSE data[id]]

\* lines 209-221
Notification(appId, storedVersion, newVersion, regionUsed) ==
  [title  |-> IF ~Falsy(storedVersion) THEN "update" ELSE "added",
   appId  |-> appId,
   region |-> regionUsed,
   from   |-> storedVersion,
   to     |-> newVersion]

\* The log without its not-found bucket being filled.
PushLog_NoNotFound(lg, class, appId) ==
  CASE class = "initial"  -> [lg EXCEPT !.initial = Append(@, appId)]
    [] class = "updated"  -> [lg EXCEPT !.updated = Append(@, appId)]
    [] class = "notFound" -> lg
    [] OTHER              -> [lg EXCEPT !.noUpdate = Append(@, <<appId, class>>)]

\* lines 160, 173, 179, 183, 187: the bucket an observation is pushed to
PushLog(lg, class, appId) ==
  CASE class = "initial"  -> [lg EXCEPT !.initial = Append(@, appId)]
    [] class = "updated"  -> [lg EXCEPT !.updated = Append(@, appId)]
    [] class = "notFound" -> [lg EXCEPT !.notFound = Append(@, appId)]
    [] OTHER              -> [lg EXCEPT !.noUpdate = Append(@, <<appId, class>>)]

\* The loop without the break of line 155.
LoopContinues_NoBreak(appInfo, k, regs) == k < Len(regs)

\* lines 151-157: the loop goes on to the next region when the probe just
\* answered was a miss and a region is left.
LoopContinues(appInfo, k, regs) == ~appInfo.found /\ k < Len(regs)

\* One lookupApp callback of task i (lines 240-250) and the code of
\* checkAppUpdate it resumes: either the next probe is issued (line 152), or
\* the loop is left and the task runs to its end (lines 159-229).
Resume(i, result) ==
  LET t    == tasks[i]
      k    == Len(t.probed)
      ans  == Append(t.answers, result.found)
      sv   == StoredVersion(monitoredData, t.appId)
      nv   == result.version
      ru   == regions[k]
      cls  == LogClass(sv, nv)
      rec  == Record(nv, ru, result.name)
  IN
  IF LoopContinues(result, k, regions)
    THEN /\ tasks' = [tasks EXCEPT ![i] =
                        [t EXCEPT !.answers = ans, !.appInfo = result,
                                  !.probed = Append(@, regions[k + 1])]]
         /\ UNCHANGED << monitoredData, logs, posted >>
    ELSE IF ~result.found
      THEN \* lines 159-164
           /\ tasks' = [tasks EXCEPT ![i] =
                          [t EXCEPT !.answers = ans, !.appInfo = result,
                                    !.status = "done", !.class = "notFound"]]
           /\ logs' = PushLog(logs, "notFound", t.appId)
           /\ UNCHANGED << monitoredData, posted >>
      ELSE \* lines 166-229
           /\ logs' = PushLog(logs, cls, t.appId)
           /\ IF ShouldNotify(sv, nv)
                THEN /\ monitoredData' = PutRecord(monitoredData, t.appId, rec)
                     /\ posted' = Append(posted, Notification(t.appId, sv, nv, ru))
                ELSE /\ monitoredData' =
                          IF t.appId \notin DOMAIN monitoredData
                            THEN PutRecord(monitoredData, t.appId, rec)
                            ELSE monitoredData
                     /\ posted' = posted
           /\ tasks' = [tasks EXCEPT ![i] =
                          [t EXCEPT !.answers = ans, !.appInfo = result,
                                    !.regionUsed = ru,
                                    !.status = "done", !.class = cls,
                                    !.wrote =
                                      IF ShouldNotify(sv, nv) THEN "accept"
                                      ELSE IF t.appId \notin DOMAIN monitoredData
                                        THEN "fallback" ELSE "none"]]

\* A probe is answered with no usable result (lines 241-248: transport
\* error, status other than 200, unparseable body, resultCount 0).
LookupMiss ==
  \E i \in 1..Len(tasks) :
    /\ pc = "active"
    /\ tasks[i].status = "await"
    /\ MayAnswer(tasks[i].appId, tasks[i].probed[Len(tasks[i].probed)], NoInfo)
    /\ Resume(i, NoInfo)
    /\ UNCHANGED << cmp, catalog, idsRaw, regionsRaw, store, pc, runs, store0, newIds, regions,
                    writes, doneCalls, errorLog >>

\* A probe is answered with a result (line 246).
LookupHit ==
  \E i \in 1..Len(tasks) : \E r \in LookupResults \ {NoInfo} :
    /\ pc = "active"
    /\ tasks[i].status = "await"
    /\ MayAnswer(tasks[i].appId, tasks[i].probed[Len(tasks[i].probed)], r)
    /\ Resume(i, r)
    /\ UNCHANGED << cmp, catalog, idsRaw, regionsRaw, store, pc, runs, store0, newIds, regions,
                    writes, doneCalls, errorLog >>

\* Promise.all resolving as soon as one task has returned.
AllSettled_Any == \E i \in 1..Len(tasks) : tasks[i].status = "done"

\* Promise.all resolves once every task has returned
AllSettled == \A i \in 1..Len(tasks) : tasks[i].status = "done"

\* lines 99-127: the summary, the single write of the table and $done
MainFinish ==
  /\ pc = "active"
  /\ AllSettled
  /\ store' = JSONstringify(monitoredData)
  /\ writes' = writes + 1
  /\ doneCalls' = doneCalls + 1
  /\ errorLog' = errorLog
  /\ pc' = "done"
  /\ UNCHANGED << cmp, catalog, idsRaw, regionsRaw, runs, store0, newIds, regions,
                  monitoredData, tasks, logs, posted >>

\* Between two runs the user rewrites the tracked-id list; the script
\* instance of the finished run and its variables are gone by then.
EditIds ==
  \E c \in IdConfigs :
    /\ CanStart
    /\ runs > 0
    /\ c # idsRaw
    /\ idsRaw' = c
    /\ pc' = "idle"
    /\ store0' = store
    /\ newIds' = <<>>
    /\ regions' = <<>>
    /\ monitoredData' = EmptyTable
    /\ tasks' = <<>>
    /\ logs' = EmptyLogs
    /\ posted' = <<>>
    /\ writes' = 0
    /\ doneCalls' = 0
    /\ errorLog' = 0
    /\ UNCHANGED << cmp, catalog, regionsRaw, store, runs >>

Next ==
  \/ MainUnconfigured
  \/ MainEmptyTracked
  \/ MainActive
  \/ MainCrash
  \/ LookupMiss
  \/ LookupHit
  \/ MainFinish
  \/ EditIds

Spec == Init /\ [][Next]_vars

----------------------------------------------------------------------------
(* A run in which a host call made by a task may fail *)

\* The blob with the catch clause writing the table of the failed run.
OnRejected_Persist(stored, data) == JSONstringify(data)

\* lines 123-125: the catch clause logs the error and writes nothing
OnRejected(stored, data) == stored

\* A probe is answered with a result the task accepts, and the host call
\* $notification.post of line 221 throws: the record of lines 195-199 and the
\* log entry are already made, the task's promise rejects, Promise.all
\* rejects with it at once (line 95), and main resumes in its catch clause
\* and its finally clause (lines 123-127) before any other callback runs.
\* The tasks still awaiting an answer are not waited for.
Rejects(i, result) ==
  LET t   == tasks[i]
      k   == Len(t.probed)
      sv  == StoredVersion(monitoredData, t.appId)
      nv  == result.version
      cls == LogClass(sv, nv)
      rec == Record(nv, regions[k], result.name)
  IN
  /\ ShouldNotify(sv, nv)
  /\ logs' = PushLog(logs, cls, t.appId)
  /\ monitoredData' = PutRecord(monitoredData, t.appId, rec)
  /\ store' = OnRejected(store, PutRecord(monitoredData, t.appId, rec))
  /\ tasks' = [tasks EXCEPT ![i] =
                 [t EXCEPT !.answers = Append(@, TRUE), !.appInfo = result,
                           !.regionUsed = regions[k],
                           !.status = "failed", !.class = cls,
                           !.wrote = "accept"]]

TaskThrows ==
  \E i \in 1..Len(tasks) : \E r \in LookupResults \ {NoInfo} :
    /\ pc = "active"
    /\ tasks[i].status = "await"
    /\ MayAnswer(tasks[i].appId, tasks[i].probed[Len(tasks[i].probed)], r)
    /\ Rejects(i, r)
    /\ errorLog' = errorLog + 1
    /\ doneCalls' = doneCalls + 1
    /\ pc' = "done"
    /\ UNCHANGED << cmp, catalog, idsRaw, regionsRaw, runs, store0, newIds, regions,
                    posted, writes >>

NextFault ==
  \/ MainUnconfigured
  \/ MainEmptyTracked
  \/ MainActive
  \/ MainCrash
  \/ LookupMiss
  \/ LookupHit
  \/ TaskThrows
  \/ MainFinish
  \/ EditIds

SpecFault == Init /\ [][NextFault]_vars

----------------------------------------------------------------------------
(* The script run again over an unchanged catalog *)

\* The catalogs that answer alike every time: a result or a miss for each
\* tracked id in each listed region, a miss in every other region.
FixedCatalogs ==
  { FixedCatalog([k \in {ID1, ID2} \X (Range(defaultRegions) \cup Listed) |->
                    IF k[2] \in Listed THEN g[k] ELSE NoInfo]) :
      g \in [{ID1, ID2} \X Listed -> LookupResults] }

InitRerun ==
  /\ idsRaw \in {Cfg(<<"1">>), Cfg(<<"1", ",", "2">>)}
  /\ regionsRaw \in RegionConfigs
  /\ store \in {b \in InitBlobs : b.kind # "null"}
  /\ pc = "idle"
  /\ runs = 0
  /\ store0 = store
  /\ newIds = <<>>
  /\ regions = <<>>
  /\ monitoredData = EmptyTable
  /\ tasks = <<>>
  /\ logs = EmptyLogs
  /\ posted = <<>>
  /\ writes = 0
  /\ doneCalls = 0
  /\ errorLog = 0
  /\ catalog \in FixedCatalogs
  /\ cmp = NoCmp

\* The configuration is left alone between the runs.
NextRerun ==
  \/ MainActive
  \/ LookupMiss
  \/ LookupHit
  \/ MainFinish

SpecRerun == InitRerun /\ [][NextRerun]_vars

----------------------------------------------------------------------------
(* compareVersions applied to a pair of version strings *)

\* The version strings compared: "6.8", "6.8(12)", "6.8(5)", "6.8(1)",
\* "1.2.0", "1.2", "1.10.0", "1.9.9", "6.x", "6.0", " 6.8 (5) ", "1.10b",
\* "x", "1.2(0)" and "1(2)(3)".
CmpVersions ==
  { <<"6", ".", "8">>,
    <<"6", ".", "8", "(", "1", "2", ")">>,
    <<"6", ".", "8", "(", "5", ")">>,
    <<"6", ".", "8", "(", "1", ")">>,
    <<"1", ".", "2", ".", "0">>,
    <<"1", ".", "2">>,
    <<"1", ".", "1", "0", ".", "0">>,
    <<"1", ".", "9", ".", "9">>,
    <<"6", ".", "x">>,
    <<"6", ".", "0">>,
    <<" ", "6", ".", "8", " ", "(", "5", ")", " ">>,
    <<"1", ".", "1", "0", "b">>,
    <<"x">>,
    <<"1", ".", "2", "(", "0", ")">>,
    <<"1", "(", "2", ")", "(", "3", ")">> }

InitCmp ==
  /\ idsRaw = NoCfg
  /\ regionsRaw = NoCfg
  /\ store = Blob("absent", EmptyTable)
  /\ pc = "idle"
  /\ runs = 0
  /\ store0 = store
  /\ newIds = <<>>
  /\ regions = <<>>
  /\ monitoredData = EmptyTable
  /\ tasks = <<>>
  /\ logs = EmptyLogs
  /\ posted = <<>>
  /\ writes = 0
  /\ doneCalls = 0
  /\ errorLog = 0
  /\ catalog = FreeCatalog
  /\ \E a \in CmpVersions, b \in CmpVersions :
       cmp = [state |-> "input", v1 |-> a, v2 |-> b, r12 |-> 0, r21 |-> 0, r11 |-> 0]

\* compareVersions is called on the pair, on the swapped pair and on the
\* first argument with itself.
Compare ==
  /\ cmp.state = "input"
  /\ cmp' = [cmp EXCEPT !.state = "done",
                        !.r12 = compareVersions(cmp.v1, cmp.v2),
                        !.r21 = compareVersions(cmp.v2, cmp.v1),
                        !.r11 = compareVersions(cmp.v1, cmp.v1)]
  /\ UNCHANGED << idsRaw, regionsRaw, store, pc, runs, store0, newIds, regions,
                  monitoredData, tasks, logs, posted, writes, doneCalls, errorLog,
                  catalog >>

NextCmp == Compare

SpecCmp == InitCmp /\ [][NextCmp]_vars

----------------------------------------------------------------------------
(* Properties *)

US == <<"u", "s">>
CN == <<"c", "n">>

TaskIds == 1..Len(tasks)

\* The run in progress or just finished took the Active path.
InActiveRun == pc \in {"active", "done"} /\ newIds # <<>>
FinishedActiveRun == pc = "done" /\ newIds # <<>>

\* The table the run found in the store (empty unless the blob parses to one).
Table0 == LoadMonitoredData(store0)

\* Task i is resumed by a callback in this step and runs to its end with a
\* result (lines 166-229).
Classifies(i) ==
  /\ pc = "active" /\ pc' = "active"
  /\ tasks[i].status = "await"
  /\ tasks'[i].status = "done"
  /\ tasks'[i].appInfo.found

NotesFor(id) == {n \in 1..Len(posted) : posted[n].appId = id}

\* C1: every task probes the regions strictly in list order and one at a
\* time: the probes issued are a prefix of the region order, at most the last
\* one is unanswered, every probe before the last was answered with a miss,
\* a task that found the app stopped at its first hit and attributes the
\* result to that region, and a task that found nothing probed every region.
C1_SequentialFirstMatch ==
  \A i \in TaskIds :
    LET t == tasks[i]
        k == Len(t.probed)
    IN /\ k \in 1..Len(regions)
       /\ t.probed = SubSeq(regions, 1, k)
       /\ Len(t.answers) = IF t.status = "await" THEN k - 1 ELSE k
       /\ \A j \in 1..(k - 1) : t.answers[j] = FALSE
       /\ (t.status = "done" /\ t.class # "notFound")
            => /\ t.answers[k] = TRUE
               /\ t.appInfo.found
               /\ t.regionUsed = regions[k]
       /\ (t.status = "done" /\ t.class = "notFound")
            => /\ k = Len(regions)
               /\ t.answers[k] = FALSE

\* C1 witness: with the order us, cn a task missed in us, hit in cn and
\* finished after exactly two probes, attributed to cn.
C1_Witness ==
  \E i \in TaskIds :
    /\ regions = <<US, CN>>
    /\ tasks[i].status = "done"
    /\ tasks[i].probed = <<US, CN>>
    /\ tasks[i].answers = <<FALSE, TRUE>>
    /\ tasks[i].regionUsed = CN

\* C2: whenever a task classifies an observation, a notification is posted
\* and the record of the id is overwritten if and only if the table holds no
\* record for the id or the observed version compares greater than the
\* stored one; otherwise nothing is posted and the table is left as it was.
C2_AcceptIffAbsentOrGreater ==
  [][\A i \in TaskIds :
       Classifies(i) =>
         LET id  == tasks[i].appId
             obs == tasks'[i].appInfo
             ru  == tasks'[i].regionUsed
         IN IF \/ id \notin DOMAIN monitoredData
               \/ compareVersions(obs.version, monitoredData[id].version) > 0
              THEN /\ Len(posted') = Len(posted) + 1
                   /\ posted'[Len(posted')].appId = id
                   /\ monitoredData' =
                        PutRecord(monitoredData, id, Record(obs.version, ru, obs.name))
              ELSE /\ posted' = posted
                   /\ monitoredData' = monitoredData]_vars

\* C3: when an Active run has finished, every tracked id that had no stored
\* record at the start of the run and that some task resolved has exactly one
\* notification posted for it.
C3_FirstSeenNotifiedOnce ==
  FinishedActiveRun =>
    \A i \in TaskIds :
      (tasks[i].appId \notin DOMAIN Table0 /\ tasks[i].appInfo.found)
        => Cardinality(NotesFor(tasks[i].appId)) = 1

\* C4: whenever a task writes the record of an id that already has a record,
\* the version written compares strictly greater than the version replaced.
C4_OverwriteOnlyWithGreater ==
  [][\A i \in TaskIds :
       (Classifies(i) /\ tasks'[i].wrote # "none"
          /\ tasks[i].appId \in DOMAIN monitoredData)
         => compareVersions(monitoredData'[tasks[i].appId].version,
                            monitoredData[tasks[i].appId].version) > 0]_vars

\* C5: an id that had a stored record and is absent from the non-empty
\* tracked-id list of a run has no record in the in-memory table during the
\* run, no notification of the run refers to it, and after the run the
\* persisted table has no record for it.
C5_RemovedIdIsPruned ==
  InActiveRun =>
    \A id \in DOMAIN Table0 \ Range(newIds) :
      /\ id \notin DOMAIN monitoredData
      /\ NotesFor(id) = {}
      /\ pc = "done" => (store.kind = "json" /\ id \notin DOMAIN store.tbl)

\* C5 witness: a finished Active run that tracked id 1 only, found a stored
\* record of id 2 and notified about id 1.
C5_Witness ==
  /\ FinishedActiveRun
  /\ Range(newIds) = {ID1}
  /\ ID2 \in DOMAIN Table0
  /\ ID2 \notin DOMAIN store.tbl
  /\ NotesFor(ID1) # {}

\* The run just finished found an empty tracked-id list (lines 38-39).
FinishedEmptyList == pc = "done" /\ Len(ParseIds(idsRaw)) = 0

\* The blob holds no prior state: never written, blank, or the empty mapping.
NoPriorState(b) == b.kind \in {"absent", "blank"} \/ (b.kind = "json" /\ DOMAIN b.tbl = {})

\* C6: a run whose tracked-id configuration parses to an empty list issues
\* no lookup and ends with one $done; when the persisted state was not empty
\* it posts nothing and leaves the blank blob behind with a single write, and
\* when the persisted state was already empty it writes nothing.
C6_EmptyListErasesState ==
  FinishedEmptyList =>
    /\ tasks = <<>>
    /\ doneCalls = 1
    /\ ~NoPriorState(store0) =>
         /\ store = Blob("blank", EmptyTable)
         /\ writes = 1
         /\ posted = <<>>
    /\ NoPriorState(store0) =>
         /\ writes = 0
         /\ store = store0

\* C6 witness: a finished run with the list "," that found a stored table
\* with a record and erased it.
C6_Witness ==
  /\ FinishedEmptyList
  /\ idsRaw = Cfg(<<",">>)
  /\ store0.kind = "json"
  /\ DOMAIN store0.tbl # {}
  /\ store = Blob("blank", EmptyTable)

\* C7: a run that finds no tracked-id configuration and no prior state posts
\* exactly one notification, the configuration-needed one, writes nothing,
\* issues no lookup and ends with one $done.
C7_UnconfiguredNotifiesOnce ==
  (pc = "done" /\ ~Truthy(idsRaw) /\ NoPriorState(store0)) =>
    /\ Len(posted) = 1
    /\ posted[1].title = "unconfigured"
    /\ writes = 0
    /\ store = store0
    /\ tasks = <<>>
    /\ doneCalls = 1

\* C7 witness: a finished run without configuration whose stored blob was
\* the empty mapping.
C7_Witness ==
  /\ pc = "done"
  /\ idsRaw = NoCfg
  /\ store0 = Blob("json", EmptyTable)
  /\ Len(posted) = 1

\* C8: in a run that found a malformed blob, every task that resolves its id
\* logs it as first seen, the run ends with $done, and the table written at
\* the end holds only records written by tasks of the run.
C8_MalformedMeansAllFirstSeen ==
  (InActiveRun /\ store0.kind = "malformed") =>
    /\ \A i \in TaskIds :
         (tasks[i].status = "done" /\ tasks[i].appInfo.found)
           => tasks[i].class = "initial"
    /\ pc = "done" =>
         /\ store.kind = "json"
         /\ \A id \in DOMAIN store.tbl :
              \E i \in TaskIds : tasks[i].appId = id /\ tasks[i].wrote # "none"

\* The tracked ids a finished run leaves a record for: those it found
\* stored and those one of its tasks resolved.
RecordedIds ==
  {id \in Range(newIds) :
     \/ id \in DOMAIN Table0
     \/ \E i \in TaskIds : tasks[i].appId = id /\ tasks[i].appInfo.found}

\* C9 as stated: after a finished Active run the persisted table has a
\* record for every tracked id and for nothing else.
C9_RecordForEveryTrackedId ==
  FinishedActiveRun =>
    /\ store.kind = "json"
    /\ DOMAIN store.tbl = Range(newIds)

\* C9 amended: after a finished Active run the persisted table has a record
\* for exactly the tracked ids that had a stored record at the start of the
\* run or that a task of the run resolved; an id whose probes all missed
\* and that had no record has none.
C9_RecordForEveryResolvedId ==
  FinishedActiveRun =>
    /\ store.kind = "json"
    /\ DOMAIN store.tbl = RecordedIds

\* C9 witness: a finished Active run tracking ids 1 and 2 that resolved one
\* of them and found the other nowhere.
C9_Witness ==
  /\ FinishedActiveRun
  /\ Range(newIds) = {ID1, ID2}
  /\ Cardinality(DOMAIN store.tbl) = 1
  /\ \E i \in TaskIds : tasks[i].class = "notFound"
  /\ \E i \in TaskIds : tasks[i].class = "initial"

\* C10: from the start of the tasks of an Active run to its end the keys of
\* the in-memory table are tracked ids, and so are the keys of the table the
\* run writes.
C10_KeysAreTracked ==
  InActiveRun =>
    /\ DOMAIN monitoredData \subseteq Range(newIds)
    /\ (pc = "done" /\ writes > 0) => DOMAIN store.tbl \subseteq Range(newIds)

\* C10 witness: an Active run in progress that found a stored record of an
\* id no longer tracked and in which a task has already written a record.
C10_Witness ==
  /\ pc = "active"
  /\ ~(DOMAIN Table0 \subseteq Range(newIds))
  /\ \E i \in TaskIds : tasks[i].wrote = "accept"

\* C11: compareVersions returns -1, 0 or 1, is reflexive (a version compared
\* with itself gives 0) and antisymmetric (swapping the arguments negates
\* the result).
C11_ReflexiveAntisymmetric ==
  cmp.state = "done" =>
    /\ cmp.r12 \in {-1, 0, 1}
    /\ cmp.r11 = 0
    /\ cmp.r12 = 0 - cmp.r21

\* C11 witness: two versions of different length, "1.2" and "1.10.0", were
\* compared both ways.
C11_Witness ==
  /\ cmp.state = "done"
  /\ cmp.v1 = <<"1", ".", "2">>
  /\ cmp.v2 = <<"1", ".", "1", "0", ".", "0">>
  /\ cmp.r12 = -1
  /\ cmp.r21 = 1

\* The reference order of version strings, stated without the code: a
\* trimmed string that ends in "(", digits, ")" after at least one character
\* has those digits as its build and what precedes them as its main part;
\* any other string has build 0 and is its own main part.
RefSuffixAt(v) ==
  {k \in 2..(Len(v) - 2) :
     /\ v[k] = "("
     /\ v[Len(v)] = ")"
     /\ \A i \in (k + 1)..(Len(v) - 1) : v[i] \in DigitChars}

RECURSIVE RefDecimal(_)
RefDecimal(ds) ==
  IF ds = <<>> THEN 0
  ELSE 10 * RefDecimal(SubSeq(ds, 1, Len(ds) - 1)) + DigitVal(ds[Len(ds)])

RefBuild(v) ==
  IF RefSuffixAt(v) = {} THEN 0
  ELSE LET k == CHOOSE k \in RefSuffixAt(v) : TRUE
       IN RefDecimal(SubSeq(v, k + 1, Len(v) - 1))

RefMain(v) ==
  IF RefSuffixAt(v) = {} THEN v
  ELSE LET k == CHOOSE k \in RefSuffixAt(v) : TRUE
       IN Trim(SubSeq(v, 1, k - 1))

\* The segments of the main part: the text between consecutive dots.
RefDots(m) == {i \in 1..Len(m) : m[i] = "."}
RefSegmentCount(m) == Cardinality(RefDots(m)) + 1
RefSegment(m, j) ==
  LET before == {i \in RefDots(m) : Cardinality({d \in RefDots(m) : d <= i}) = j - 1}
      after  == {i \in RefDots(m) : Cardinality({d \in RefDots(m) : d <= i}) = j}
      from   == IF before = {} THEN 1 ELSE (CHOOSE i \in before : TRUE) + 1
      to     == IF after = {} THEN Len(m) ELSE (CHOOSE i \in after : TRUE) - 1
  IN SubSeq(m, from, to)

\* The number a segment stands for: its leading digits, 0 when it has none.
RefNumber(seg) ==
  LET n == IF \E i \in 1..Len(seg) : seg[i] \notin DigitChars
             THEN (CHOOSE i \in 1..Len(seg) :
                     /\ seg[i] \notin DigitChars
                     /\ \A j \in 1..(i - 1) : seg[j] \in DigitChars) - 1
             ELSE Len(seg)
  IN RefDecimal(SubSeq(seg, 1, n))

RefPart(v, j) ==
  LET m == RefMain(Trim(v))
  IN IF j <= RefSegmentCount(m) THEN RefNumber(RefSegment(m, j)) ELSE 0

RefCompare(a, b) ==
  LET na   == RefSegmentCount(RefMain(Trim(a)))
      nb   == RefSegmentCount(RefMain(Trim(b)))
      n    == IF na >= nb THEN na ELSE nb
      diff == {j \in 1..n : RefPart(a, j) # RefPart(b, j)}
      ba   == RefBuild(Trim(a))
      bb   == RefBuild(Trim(b))
  IN IF diff # {}
       THEN LET j == CHOOSE j \in diff : \A i \in diff : j <= i
            IN IF RefPart(a, j) > RefPart(b, j) THEN 1 ELSE -1
       ELSE IF ba > bb THEN 1 ELSE IF ba < bb THEN -1 ELSE 0

\* C16: compareVersions agrees with the reference order on every pair, and
\* in particular "6.8(12)" is greater than "6.8(5)", "6.8" is less than
\* "6.8(1)", "1.2.0" equals "1.2" and "1.10.0" is greater than "1.9.9".
C16_EqualsReferenceOrder ==
  cmp.state = "done" =>
    /\ cmp.r12 = RefCompare(cmp.v1, cmp.v2)
    /\ (cmp.v1 = <<"6", ".", "8", "(", "1", "2", ")">>
          /\ cmp.v2 = <<"6", ".", "8", "(", "5", ")">>) => cmp.r12 = 1
    /\ (cmp.v1 = <<"6", ".", "8">>
          /\ cmp.v2 = <<"6", ".", "8", "(", "1", ")">>) => cmp.r12 = -1
    /\ (cmp.v1 = <<"1", ".", "2", ".", "0">>
          /\ cmp.v2 = <<"1", ".", "2">>) => cmp.r12 = 0
    /\ (cmp.v1 = <<"1", ".", "1", "0", ".", "0">>
          /\ cmp.v2 = <<"1", ".", "9", ".", "9">>) => cmp.r12 = 1

\* C16 witness: "1.2.0" was compared with "1.2" and found equal.
C16_Witness ==
  /\ cmp.state = "done"
  /\ cmp.v1 = <<"1", ".", "2", ".", "0">>
  /\ cmp.v2 = <<"1", ".", "2">>
  /\ cmp.r12 = 0

\* C12: in a run on the Active path over pairwise different ids, no task is
\* still awaiting an answer once the run has called $done, also when a task
\* has thrown.
C12_NoTaskPendingAtDone ==
  (/\ pc = "done"
   /\ newIds # <<>>
   /\ \A i, j \in TaskIds : i # j => tasks[i].appId # tasks[j].appId) =>
    \A i \in TaskIds : tasks[i].status # "await"

\* C13: the tasks of one run are started for pairwise different ids, so that
\* no two of them read or write the same key of the table.
C13_TasksOwnDisjointKeys ==
  pc = "active" =>
    \A i, j \in TaskIds : i # j => tasks[i].appId # tasks[j].appId

\* C14: when a task's exception has left the fan-out, the run has logged it
\* once, has written nothing (the blob is the one the run read, whatever was
\* pruned or updated in memory) and has called $done once.
C14_ErrorLeavesBlobUntouched ==
  errorLog > 0 =>
    /\ errorLog = 1
    /\ pc = "done"
    /\ doneCalls = 1
    /\ writes = 0
    /\ store = store0

\* C14 witness: a run failed after it had pruned a record from the table in
\* memory and replaced another, and the stored table is still the old one.
C14_Witness ==
  /\ errorLog = 1
  /\ pc = "done"
  /\ store.kind = "json"
  /\ store = store0
  /\ \E id \in DOMAIN Table0 : id \notin DOMAIN monitoredData
  /\ \E id \in DOMAIN Table0 \cap DOMAIN monitoredData :
       monitoredData[id] # Table0[id]

\* The step in which task i leaves its loop with every probe missed.
AllProbesMissed(i) ==
  /\ i \in TaskIds
  /\ i \in 1..Len(tasks')
  /\ tasks[i].status = "await"
  /\ tasks'[i].class = "notFound"

\* C15: the step in which a task has had every region miss adds one entry
\* for its id to the not-found bucket, posts nothing, leaves the table as it
\* is, ends the task normally and leaves every other task and the run as
\* they are; a task that ended this way has probed every region, got a miss
\* from each and written nothing.
C15_AllMissesOnlyLogged ==
  /\ [](\A i \in TaskIds :
          tasks[i].class = "notFound" =>
            /\ tasks[i].status = "done"
            /\ tasks[i].probed = regions
            /\ \A k \in 1..Len(tasks[i].answers) : ~tasks[i].answers[k]
            /\ Len(tasks[i].answers) = Len(regions)
            /\ tasks[i].wrote = "none")
  /\ [][\A i \in 1..Len(tasks) :
          AllProbesMissed(i) =>
            /\ logs'.notFound = Append(logs.notFound, tasks[i].appId)
            /\ logs'.initial = logs.initial
            /\ logs'.updated = logs.updated
            /\ logs'.noUpdate = logs.noUpdate
            /\ posted' = posted
            /\ monitoredData' = monitoredData
            /\ tasks'[i].status = "done"
            /\ pc' = pc
            /\ Len(tasks') = Len(tasks)
            /\ \A j \in TaskIds \ {i} : tasks'[j] = tasks[j]]_vars

\* C15 witness: a run over two different ids has finished; one id was
\* missed in every region and its stored record is the one the run read,
\* the other id's task found a newer version and its notification was sent.
C15_Witness ==
  /\ FinishedActiveRun
  /\ writes = 1
  /\ \E i, j \in TaskIds :
       /\ tasks[i].appId # tasks[j].appId
       /\ tasks[i].class = "notFound"
       /\ tasks[i].appId \in DOMAIN Table0
       /\ tasks[i].appId \in DOMAIN monitoredData
       /\ monitoredData[tasks[i].appId] = Table0[tasks[i].appId]
       /\ NotesFor(tasks[i].appId) = {}
       /\ tasks[j].class = "updated"
       /\ NotesFor(tasks[j].appId) # {}

\* C17: a run that has ended has called $done exactly once, whatever the
\* tracked-id list and the stored blob were.
C17_EndedRunCalledDoneOnce ==
  pc \in {"done", "crashed"} => doneCalls = 1

\* C18: the table is written at most once in a run on the Active path, and
\* only when every task has returned; as long as one lookup has not
\* answered, the run has neither written nor called $done.
C18_WriteOnceAfterAllTasks ==
  InActiveRun =>
    /\ writes <= 1
    /\ writes = 1 => (pc = "done" /\ \A i \in TaskIds : tasks[i].status = "done")
    /\ (\E i \in TaskIds : tasks[i].status = "await") =>
         /\ pc = "active"
         /\ writes = 0
         /\ doneCalls = 0
         /\ store = store0

\* C18 witness: the lookup of one id has never answered, and the task of
\* another id has run to its end, recorded its version in memory and sent
\* its notification; nothing is written and $done is not called.
C18_Witness ==
  /\ pc = "active"
  /\ writes = 0
  /\ doneCalls = 0
  /\ \E i, j \in TaskIds :
       /\ tasks[i].appId # tasks[j].appId
       /\ tasks[i].status = "await"
       /\ tasks[i].answers = <<>>
       /\ tasks[j].status = "done"
       /\ tasks[j].wrote = "accept"
       /\ tasks[j].appId \in DOMAIN monitoredData
       /\ NotesFor(tasks[j].appId) # {}

\* C19: no task ever takes the branch of lines 222-229, and a step of a
\* running task that changes the table also sends a notification for the
\* id whose record it wrote.
C19_FallbackNeverTaken ==
  /\ [](\A i \in TaskIds : tasks[i].wrote # "fallback")
  /\ [][(pc = "active" /\ pc' = "active" /\ monitoredData' # monitoredData) =>
          \E i \in TaskIds :
            /\ tasks[i].status = "await"
            /\ tasks'[i].status = "done"
            /\ Len(posted') = Len(posted) + 1
            /\ posted'[Len(posted')].appId = tasks[i].appId
            /\ \A id \in DOMAIN monitoredData' :
                 id # tasks[i].appId =>
                   id \in DOMAIN monitoredData /\ monitoredData'[id] = monitoredData[id]]_vars

\* C19 witness: an id with no record was found, recorded and notified as
\* added, and the task of another id, whose record holds the version found,
\* wrote nothing.
C19_Witness ==
  /\ FinishedActiveRun
  /\ \E i, j \in TaskIds :
       /\ tasks[i].appId \notin DOMAIN Table0
       /\ tasks[i].wrote = "accept"
       /\ tasks[i].class = "initial"
       /\ NotesFor(tasks[i].appId) # {}
       /\ tasks[j].class = "same"
       /\ tasks[j].wrote = "none"
       /\ NotesFor(tasks[j].appId) = {}

\* C20: a run that follows a finished run with the same tracked ids, the
\* same regions and the same catalog answers sends no notification, finds
\* every id it resolves at its stored version, and writes the table it read.
C20_RerunChangesNothing ==
  (runs >= 2 /\ FinishedActiveRun /\ catalog.fixed) =>
    /\ posted = <<>>
    /\ \A i \in TaskIds : tasks[i].class \in {"same", "notFound"}
    /\ store = store0

====
